---- MODULE Spec2Model ----
(***************************************************************************)
(* Task Metrics API (backend/server.py): templates, tasks and events kept  *)
(* in three MongoDB collections, and the request handlers that read and    *)
(* write them.  Every handler runs as its own request; a request's steps   *)
(* are its accesses to the collections, each of which MongoDB applies      *)
(* atomically, so two requests interleave between accesses.                *)
(***************************************************************************)
EXTENDS Integers, Sequences, FiniteSets, Bags, TLC

\* ------------------------------------------------------------------ bounds
\* Templates and tasks ever inserted, and events stored: the caps of Spec.
MaxTemplates == 2
MaxTasks == 3
MaxEvents == 3

\* The same caps for the specifications of the scheduler, the aggregator,
\* the cascade of delete_task and the report.
GenTemplates == 2
GenTasks == 3
LogTasks == 2
LogEvents == 2
CascadeTasks == 2
CascadeEvents == 2
ReportTasks == 3
ReportEvents == 2

\* The same caps for the specification of the aggregator over every metric.
MixTasks == 1
MixEvents == 2

\* The same caps for the specification of the templates' deletion.
TplTemplates == 2
TplTasks == 2
TplEvents == 1

\* The same caps for the specification of the whole API.
ApiTemplates == 1
ApiTasks == 2
ApiEvents == 1

\* The requests that may be in flight together.
Procs == {1, 2}

\* ------------------------------------------------------------ optional values
\* Optional[T]: None is the empty sequence, a present value v is <<v>>.
None == <<>>
Some(v) == <<v>>
IsNone(o) == o = <<>>

\* --------------------------------------------------------------- MetricType
COUNT == "count"
TIMER == "timer"
CHECK == "check"

\* validate_metric of TaskTemplateCreate and TaskCreate
validate_metric(v) == v \in {COUNT, TIMER, CHECK}

\* ------------------------------------------------------------------- dates
\* A date string "Y-M-D" is the record of its three numeric fields.
IsLeap(y) == (y % 4 = 0) /\ ((y % 100 # 0) \/ (y % 400 = 0))

DaysInMonth(y, m) ==
    CASE m \in {1, 3, 5, 7, 8, 10, 12} -> 31
      [] m \in {4, 6, 9, 11} -> 30
      [] OTHER -> IF IsLeap(y) THEN 29 ELSE 28

\* A strptime that takes any three numbers for a date.
ValidDate_Any(s) == TRUE

\* datetime.strptime(date_str, "%Y-%m-%d") raises ValueError on these.
ValidDate(s) ==
    /\ s.y \in 1..9999
    /\ s.m \in 1..12
    /\ s.d \in 1..DaysInMonth(s.y, s.m)

RECURSIVE DaysBeforeMonth(_, _)
DaysBeforeMonth(y, m) ==
    IF m = 1 THEN 0 ELSE DaysBeforeMonth(y, m - 1) + DaysInMonth(y, m - 1)

\* date.toordinal(): days since 0001-01-01, that day being 1.
ToOrdinal(s) ==
    LET y1 == s.y - 1
    IN  y1 * 365 + (y1 \div 4) - (y1 \div 100) + (y1 \div 400)
          + DaysBeforeMonth(s.y, s.m) + s.d

\* date.weekday(): 0 = Monday .. 6 = Sunday
WeekdayOf(s) == (ToOrdinal(s) + 6) % 7

Mon0603 == [y |-> 2024, m |-> 6, d |-> 3]
Wed0605 == [y |-> 2024, m |-> 6, d |-> 5]
Bad0631 == [y |-> 2024, m |-> 6, d |-> 31]

\* The date strings requests carry: a Monday, a Wednesday, and a malformed one.
DateStrs == {Mon0603, Wed0605, Bad0631}

\* ------------------------------------------------------------------- names
\* A name is the sequence of its characters.
RECURSIVE LStrip(_)
LStrip(s) == IF s # <<>> /\ Head(s) = " " THEN LStrip(Tail(s)) ELSE s

RECURSIVE RStrip(_)
RStrip(s) ==
    IF s # <<>> /\ s[Len(s)] = " " THEN RStrip(SubSeq(s, 1, Len(s) - 1)) ELSE s

\* str.strip()
Strip(s) == LStrip(RStrip(s))

\* ------------------------------------------------------------- active_days
RECURSIVE InsertSorted(_, _)
InsertSorted(x, s) ==
    IF s = <<>> THEN <<x>>
    ELSE IF x = Head(s) THEN s
    ELSE IF x < Head(s) THEN <<x>> \o s
    ELSE <<Head(s)>> \o InsertSorted(x, Tail(s))

RECURSIVE SortedSet(_)
\* sorted(list(set(v)))
SortedSet(v) == IF v = <<>> THEN <<>> ELSE InsertSorted(Head(v), SortedSet(Tail(v)))

\* validate_active_days of TaskTemplateCreate: the check
active_days_ok(v) == v # <<>> /\ \A i \in 1..Len(v) : 0 <= v[i] /\ v[i] <= 6

Range(s) == {s[i] : i \in 1..Len(s)}

\* ---------------------------------------------------------------- payloads
Chars(color) == \A i \in 2..Len(color) :
    color[i] \in {"0", "1", "2", "3", "4", "5", "6", "7", "8", "9",
                  "A", "B", "C", "D", "E", "F", "a", "b", "c", "d", "e", "f"}

\* Field(pattern=r'^#[0-9A-Fa-f]{6}$')
color_ok(color) == Len(color) = 7 /\ color[1] = "#" /\ Chars(color)

\* Field(min_length=1, max_length=100)
name_ok(name) == 1 <= Len(name) /\ Len(name) <= 100

\* Field(None, ge=1, le=10000)
goal_ok(goal) == IF IsNone(goal) THEN TRUE ELSE 1 <= goal[1] /\ goal[1] <= 10000

Indigo == <<"#", "6", "3", "6", "6", "F", "1">>
Red == <<"#", "F", "F", "0", "0", "0", "0">>

\* The bodies POST /api/templates is called with.
TemplatePayloads == {
    [name |-> <<"P", "u", "s", "h">>, color |-> Indigo, metric |-> COUNT,
     goal |-> Some(50), active_days |-> <<0, 1, 2, 3, 4>>],
    [name |-> <<" ", "R", "u", "n", " ">>, color |-> Red, metric |-> TIMER,
     goal |-> None, active_days |-> <<2, 0, 2>>],
    [name |-> <<"R", "e", "s", "t">>, color |-> Indigo, metric |-> CHECK,
     goal |-> None, active_days |-> <<5, 6>>],
    [name |-> <<"O", "f", "f">>, color |-> Indigo, metric |-> CHECK,
     goal |-> None, active_days |-> <<7>>] }

\* The bodies POST /api/tasks is called with.
TaskPayloads == {
    [name |-> <<"W", "a", "t", "e", "r">>, color |-> Indigo, metric |-> COUNT,
     goal |-> Some(8), template_id |-> None, scheduled_date |-> None],
    [name |-> <<"W", "a", "l", "k">>, color |-> Red, metric |-> TIMER,
     goal |-> None, template_id |-> None, scheduled_date |-> Some(Mon0603)],
    [name |-> <<"P", "i", "l", "l">>, color |-> Red, metric |-> CHECK,
     goal |-> None, template_id |-> None, scheduled_date |-> Some(Mon0603)],
    [name |-> <<"N", "a", "p">>, color |-> Red, metric |-> "steps",
     goal |-> None, template_id |-> None, scheduled_date |-> None] }

\* TaskTemplateCreate: the model's field constraints and validators
TaskTemplateCreate_ok(payload) ==
    /\ name_ok(payload.name)
    /\ color_ok(payload.color)
    /\ validate_metric(payload.metric)
    /\ goal_ok(payload.goal)
    /\ active_days_ok(payload.active_days)

\* TaskCreate: the model's field constraints and validators
TaskCreate_ok(payload) ==
    /\ name_ok(payload.name)
    /\ color_ok(payload.color)
    /\ validate_metric(payload.metric)
    /\ goal_ok(payload.goal)
    /\ (IF IsNone(payload.scheduled_date) THEN TRUE
        ELSE ValidDate(payload.scheduled_date[1]))

\* An EventCreate with the type pattern alone.
EventCreate_ok_TypeOnly(payload) ==
    payload.type \in {"increment", "timer_start", "timer_stop", "check"}

\* EventCreate: type pattern, value range, and validate_value
EventCreate_ok(payload) ==
    /\ payload.type \in {"increment", "timer_start", "timer_stop", "check"}
    /\ (IF IsNone(payload.value) THEN TRUE
        ELSE 0 <= payload.value[1] /\ payload.value[1] <= 86400)
    /\ ~(payload.type = "timer_stop" /\ IsNone(payload.value))
    /\ ~(payload.type \in {"timer_start", "check"} /\ ~IsNone(payload.value))

\* The bodies POST /api/tasks/{task_id}/events is called with.
EventPayloads == {
    [type |-> "increment", value |-> None],
    [type |-> "increment", value |-> Some(10)],
    [type |-> "timer_start", value |-> None],
    [type |-> "timer_stop", value |-> Some(60)],
    [type |-> "timer_start", value |-> Some(5)],
    [type |-> "check", value |-> None],
    [type |-> "timer_stop", value |-> None],
    [type |-> "check", value |-> Some(1)],
    [type |-> "increment", value |-> Some(86401)],
    [type |-> "increment", value |-> Some(-1)] }

\* Ids in requests: 0 is a string that is no UUID, the others are UUIDs.
TaskIds == 0..MaxTasks
TemplateIds == 0..MaxTemplates

\* validate_task_id: the id is a well-formed UUID
validate_task_id(id) == id # 0

\* ------------------------------------------------------------------- state
VARIABLES
    templates,      \* db["templates"]: the template documents
    tasks,          \* db["tasks"]: the task documents
    events,         \* db["events"]: the event documents, a bag
    issued,         \* how many templates and tasks have been inserted so far
    pc,             \* per request slot: where its handler stands
    loc,            \* per request slot: the request and the handler's locals
    sent,           \* the response the last step sent, with its request
    ran             \* per date: what the last finished generation left for it

vars == <<templates, tasks, events, issued, pc, loc, sent, ran>>
stores == <<templates, tasks, events>>

\* uuid4() never repeats: the k-th template is named k, and so is the k-th task.
\* No handler reads an event's id or a document's created_at / at: an event
\* document is its task_id, type and value, and equal ones are copies in the bag.
Ids(coll) == {doc.id : doc \in coll}

NoLoc == [op |-> "none"]
NoRes == [op |-> "none", status |-> 0]

NeverRan == "never"
LeftNone == "no task"
LeftSome == "tasks"

Init ==
    /\ templates = {}
    /\ tasks = {}
    /\ events = EmptyBag
    /\ issued = [templates |-> 0, tasks |-> 0]
    /\ pc = [p \in Procs |-> "idle"]
    /\ loc = [p \in Procs |-> NoLoc]
    /\ sent = NoRes
    /\ ran = [d \in {s \in DateStrs : ValidDate(s)} |-> NeverRan]

\* The request r of slot p ends: the response of the given status and body is sent.
Finish(p, r, status, body) ==
    /\ pc' = [pc EXCEPT ![p] = "idle"]
    /\ loc' = [loc EXCEPT ![p] = NoLoc]
    /\ sent' = [op |-> r.op, req |-> r, status |-> status, body |-> body]

\* raise HTTPException(status_code, detail)
Raise(p, r, status, detail) == Finish(p, r, status, [detail |-> detail])

\* The handler of slot p moves to step at with locals l; nothing is sent.
Goto(p, at, l) ==
    /\ pc' = [pc EXCEPT ![p] = at]
    /\ loc' = [loc EXCEPT ![p] = l]
    /\ sent' = NoRes

\* Documents of a collection in insertion order, as find() returns them.
RECURSIVE InOrder(_)
InOrder(coll) ==
    IF coll = {} THEN <<>>
    ELSE LET first == CHOOSE doc \in coll : \A o \in coll : doc.id <= o.id
         IN  <<first>> \o InOrder(coll \ {first})

\* ------------------------------------------------------- template endpoints
\* POST /api/templates: the document create_template builds
template_doc(tid, payload) ==
    [id |-> tid,
     name |-> Strip(payload.name),
     color |-> payload.color,
     metric |-> payload.metric,
     goal |-> payload.goal,
     active_days |-> SortedSet(payload.active_days)]

create_template(p, payload) ==
    LET r == [op |-> "create_template", payload |-> payload]
    IN  /\ pc[p] = "idle"
        /\ UNCHANGED ran
        /\ \/ /\ ~TaskTemplateCreate_ok(payload)
              /\ Raise(p, r, 422, "validation error")
              /\ UNCHANGED <<stores, issued>>
           \/ /\ TaskTemplateCreate_ok(payload)
              /\ LET doc == template_doc(issued.templates + 1, payload)
                 IN  /\ templates' = templates \cup {doc}
                     /\ issued' = [issued EXCEPT !.templates = @ + 1]
                     /\ Finish(p, r, 200, doc)
              /\ UNCHANGED <<tasks, events>>
           \/ /\ TaskTemplateCreate_ok(payload)
              /\ Raise(p, r, 500, "Failed to create template")
              /\ UNCHANGED <<stores, issued>>

\* DELETE /api/templates/{template_id}: validate_task_id and find_one
delete_template(p, template_id) ==
    LET r == [op |-> "delete_template", template_id |-> template_id]
    IN  /\ pc[p] = "idle"
        /\ UNCHANGED <<stores, issued, ran>>
        /\ \/ /\ ~validate_task_id(template_id)
              /\ Raise(p, r, 400, "Invalid task ID format")
           \/ /\ validate_task_id(template_id)
              /\ template_id \notin Ids(templates)
              /\ Raise(p, r, 404, "Template not found")
           \/ /\ validate_task_id(template_id)
              /\ template_id \in Ids(templates)
              /\ Goto(p, "delete_template_delete", r)
           \/ /\ validate_task_id(template_id)
              /\ Raise(p, r, 500, "Failed to delete template")

\* A delete_template that also deletes the tasks made from the template.
delete_template_delete_Cascade(p) ==
    /\ pc[p] = "delete_template_delete"
    /\ UNCHANGED <<events, issued, ran>>
    /\ templates' = {t \in templates : t.id # loc[p].template_id}
    /\ tasks' = {t \in tasks : t.template_id # Some(loc[p].template_id)}
    /\ Finish(p, loc[p], 200, [ok |-> TRUE])

\* delete_template: delete_one
delete_template_delete(p) ==
    /\ pc[p] = "delete_template_delete"
    /\ UNCHANGED <<tasks, events, issued, ran>>
    /\ \/ /\ templates' = {t \in templates : t.id # loc[p].template_id}
          /\ Finish(p, loc[p], 200, [ok |-> TRUE])
       \/ /\ UNCHANGED templates
          /\ Raise(p, loc[p], 500, "Failed to delete template")

\* ----------------------------------------------------------- task endpoints
\* POST /api/tasks: the document create_task builds
task_doc(tid, payload) ==
    [id |-> tid,
     name |-> Strip(payload.name),
     color |-> payload.color,
     metric |-> payload.metric,
     goal |-> payload.goal,
     template_id |-> payload.template_id,
     scheduled_date |-> payload.scheduled_date]

create_task(p, payload) ==
    LET r == [op |-> "create_task", payload |-> payload]
    IN  /\ pc[p] = "idle"
        /\ UNCHANGED ran
        /\ \/ /\ ~TaskCreate_ok(payload)
              /\ Raise(p, r, 422, "validation error")
              /\ UNCHANGED <<stores, issued>>
           \/ /\ TaskCreate_ok(payload)
              /\ LET doc == task_doc(issued.tasks + 1, payload)
                 IN  /\ tasks' = tasks \cup {doc}
                     /\ issued' = [issued EXCEPT !.tasks = @ + 1]
                     /\ Finish(p, r, 200, doc)
              /\ UNCHANGED <<templates, events>>
           \/ /\ TaskCreate_ok(payload)
              /\ Raise(p, r, 500, "Failed to create task")
              /\ UNCHANGED <<stores, issued>>

\* DELETE /api/tasks/{task_id}: validate_task_id and find_one
delete_task(p, task_id) ==
    LET r == [op |-> "delete_task", task_id |-> task_id]
    IN  /\ pc[p] = "idle"
        /\ UNCHANGED <<stores, issued, ran>>
        /\ \/ /\ ~validate_task_id(task_id)
              /\ Raise(p, r, 400, "Invalid task ID format")
           \/ /\ validate_task_id(task_id)
              /\ task_id \notin Ids(tasks)
              /\ Raise(p, r, 404, "Task not found")
           \/ /\ validate_task_id(task_id)
              /\ task_id \in Ids(tasks)
              /\ Goto(p, "delete_task_delete", r)
           \/ /\ validate_task_id(task_id)
              /\ Raise(p, r, 500, "Failed to delete task")

\* delete_task: db["tasks"].delete_one
delete_task_delete(p) ==
    /\ pc[p] = "delete_task_delete"
    /\ UNCHANGED <<templates, events, issued, ran>>
    /\ \/ /\ tasks' = {t \in tasks : t.id # loc[p].task_id}
          /\ Goto(p, "delete_task_events", loc[p])
       \/ /\ UNCHANGED tasks
          /\ Raise(p, loc[p], 500, "Failed to delete task")

\* A delete_many that filters on the events' own id: it matches none.
delete_many_ById(coll, task_id) == coll

\* db["events"].delete_many({"task_id": task_id})
delete_many(coll, task_id) ==
    [e \in {d \in DOMAIN coll : d.task_id # task_id} |-> coll[e]]

\* delete_task: db["events"].delete_many
delete_task_events(p) ==
    /\ pc[p] = "delete_task_events"
    /\ UNCHANGED <<templates, tasks, issued, ran>>
    /\ \/ /\ events' = delete_many(events, loc[p].task_id)
          /\ Finish(p, loc[p], 200, [ok |-> TRUE])
       \/ /\ UNCHANGED events
          /\ Raise(p, loc[p], 500, "Failed to delete task")

\* ---------------------------------------------------------- event endpoint
\* A create_event that takes only the event type the task's metric folds.
create_event_Typed(p, task_id, payload) ==
    LET r == [op |-> "create_event", task_id |-> task_id, payload |-> payload]
        typed == \E t \in tasks :
                    /\ t.id = task_id
                    /\ payload.type = (IF t.metric = COUNT THEN "increment"
                                       ELSE IF t.metric = TIMER THEN "timer_stop"
                                       ELSE "check")
    IN  /\ pc[p] = "idle"
        /\ UNCHANGED <<stores, issued, ran>>
        /\ \/ /\ ~EventCreate_ok(payload)
              /\ Raise(p, r, 422, "validation error")
           \/ /\ EventCreate_ok(payload)
              /\ ~validate_task_id(task_id)
              /\ Raise(p, r, 400, "Invalid task ID format")
           \/ /\ EventCreate_ok(payload)
              /\ validate_task_id(task_id)
              /\ task_id \notin Ids(tasks)
              /\ Raise(p, r, 404, "Task not found")
           \/ /\ EventCreate_ok(payload)
              /\ validate_task_id(task_id)
              /\ task_id \in Ids(tasks)
              /\ ~typed
              /\ Raise(p, r, 422, "validation error")
           \/ /\ EventCreate_ok(payload)
              /\ validate_task_id(task_id)
              /\ task_id \in Ids(tasks)
              /\ typed
              /\ Goto(p, "create_event_insert", r)
           \/ /\ EventCreate_ok(payload)
              /\ validate_task_id(task_id)
              /\ Raise(p, r, 500, "Failed to create event")

\* POST /api/tasks/{task_id}/events: validation and find_one
create_event(p, task_id, payload) ==
    LET r == [op |-> "create_event", task_id |-> task_id, payload |-> payload]
    IN  /\ pc[p] = "idle"
        /\ UNCHANGED <<stores, issued, ran>>
        /\ \/ /\ ~EventCreate_ok(payload)
              /\ Raise(p, r, 422, "validation error")
           \/ /\ EventCreate_ok(payload)
              /\ ~validate_task_id(task_id)
              /\ Raise(p, r, 400, "Invalid task ID format")
           \/ /\ EventCreate_ok(payload)
              /\ validate_task_id(task_id)
              /\ task_id \notin Ids(tasks)
              /\ Raise(p, r, 404, "Task not found")
           \/ /\ EventCreate_ok(payload)
              /\ validate_task_id(task_id)
              /\ task_id \in Ids(tasks)
              /\ Goto(p, "create_event_insert", r)
           \/ /\ EventCreate_ok(payload)
              /\ validate_task_id(task_id)
              /\ Raise(p, r, 500, "Failed to create event")

\* create_event: the document it builds
event_doc(task_id, payload) ==
    [task_id |-> task_id, type |-> payload.type, value |-> payload.value]

\* An insert that replaces the task's events by the new one.
create_event_insert_Replacing(p) ==
    /\ pc[p] = "create_event_insert"
    /\ UNCHANGED <<templates, tasks, issued, ran>>
    /\ LET doc == [task_id |-> loc[p].task_id, type |-> loc[p].payload.type,
                   value |-> loc[p].payload.value]
           kept == [e \in {d \in DOMAIN events : d.task_id # doc.task_id} |-> events[e]]
       IN  /\ events' = kept (+) SetToBag({doc})
           /\ Finish(p, loc[p], 200, doc)

\* create_event: insert_one
create_event_insert(p) ==
    /\ pc[p] = "create_event_insert"
    /\ UNCHANGED <<templates, tasks, issued, ran>>
    /\ \/ /\ LET doc == event_doc(loc[p].task_id, loc[p].payload)
             IN  /\ events' = events (+) SetToBag({doc})
                 /\ Finish(p, loc[p], 200, doc)
       \/ /\ UNCHANGED events
          /\ Raise(p, loc[p], 500, "Failed to create event")

\* --------------------------------------------------------- task_summary
\* A $match that leaves the type out.
Match_AnyType(coll, task_id, type) ==
    [e \in {d \in DOMAIN coll : d.task_id = task_id} |-> coll[e]]

\* {"$match": {"task_id": {"$eq": task_id}, "type": {"$eq": type}}}
Match(coll, task_id, type) ==
    [e \in {d \in DOMAIN coll : d.task_id = task_id /\ d.type = type} |-> coll[e]]

\* An $ifNull whose default is 0 in both branches.
IfNull_Zero(value, default) == IF IsNone(value) THEN 0 ELSE value[1]

\* {"$ifNull": ["$value", default]}
IfNull(value, default) == IF IsNone(value) THEN default ELSE value[1]

\* {"$group": {"_id": None, field: {"$sum": {"$ifNull": ["$value", default]}}}}
RECURSIVE GroupSum(_, _)
GroupSum(docs, default) ==
    IF DOMAIN docs = {} THEN 0
    ELSE LET doc == CHOOSE d \in DOMAIN docs : TRUE
             rest == [d \in DOMAIN docs \ {doc} |-> docs[d]]
         IN  docs[doc] * IfNull(doc.value, default) + GroupSum(rest, default)

\* The count branch: result[0]["total"] if result else 0
count_total(coll, task_id) ==
    LET docs == Match(coll, task_id, "increment")
    IN  IF DOMAIN docs = {} THEN 0 ELSE GroupSum(docs, 1)

\* The timer branch: result[0]["total_sec"] if result else 0
timer_total_sec(coll, task_id) ==
    LET docs == Match(coll, task_id, "timer_stop")
    IN  IF DOMAIN docs = {} THEN 0 ELSE GroupSum(docs, 0)

\* A check branch that asks for more than one check event.
check_done_Twice(coll, task_id) ==
    BagCardinality(Match(coll, task_id, "check")) > 1

\* The check branch: count_documents(...) > 0
check_done(coll, task_id) == BagCardinality(Match(coll, task_id, "check")) > 0

\* What task_summary returns for the task document it found
summary_body(task, coll) ==
    IF task.metric = COUNT
      THEN [total |-> count_total(coll, task.id), goal |-> task.goal]
    ELSE IF task.metric = TIMER
      THEN [total_sec |-> timer_total_sec(coll, task.id), goal |-> task.goal]
    ELSE IF task.metric = CHECK
      THEN [done |-> check_done(coll, task.id)]
    ELSE [message |-> "Unknown metric"]

FindById(coll, id) == CHOOSE doc \in coll : doc.id = id

\* GET /api/tasks/{task_id}/summary: validate_task_id and find_one
task_summary(p, task_id) ==
    LET r == [op |-> "task_summary", task_id |-> task_id]
    IN  /\ pc[p] = "idle"
        /\ UNCHANGED <<stores, issued, ran>>
        /\ \/ /\ ~validate_task_id(task_id)
              /\ Raise(p, r, 400, "Invalid task ID format")
           \/ /\ validate_task_id(task_id)
              /\ task_id \notin Ids(tasks)
              /\ Raise(p, r, 404, "Task not found")
           \/ /\ validate_task_id(task_id)
              /\ task_id \in Ids(tasks)
              /\ Goto(p, "task_summary_fold",
                      [op |-> r.op, task_id |-> task_id,
                       task |-> FindById(tasks, task_id)])
           \/ /\ validate_task_id(task_id)
              /\ Raise(p, r, 500, "Failed to retrieve task summary")

\* A fold that removes the events it has read.
task_summary_fold_Consuming(p) ==
    LET r == [op |-> loc[p].op, task_id |-> loc[p].task_id]
    IN  /\ pc[p] = "task_summary_fold"
        /\ UNCHANGED <<templates, tasks, issued, ran>>
        /\ events' = delete_many(events, loc[p].task_id)
        /\ Finish(p, r, 200, summary_body(loc[p].task, events))

\* task_summary: the aggregation (or count) over db["events"]
task_summary_fold(p) ==
    LET r == [op |-> loc[p].op, task_id |-> loc[p].task_id]
    IN  /\ pc[p] = "task_summary_fold"
        /\ UNCHANGED <<stores, issued, ran>>
        /\ \/ Finish(p, r, 200, summary_body(loc[p].task, events))
           \/ Raise(p, r, 500, "Failed to retrieve task summary")

\* ------------------------------------------------- generate_daily_tasks
\* A filter on the date that sees only the tasks made from a template.
ScheduledOn_Generated(coll, target_date) ==
    {t \in coll : t.scheduled_date = Some(target_date) /\ t.template_id # None}

\* {"scheduled_date": {"$eq": target_date.isoformat()}}
ScheduledOn(coll, target_date) ==
    {t \in coll : t.scheduled_date = Some(target_date)}

\* A find that leaves the weekday out.
ActiveOn_AnyDay(coll, weekday) == coll

\* {"active_days": {"$in": [weekday]}}
ActiveOn(coll, weekday) == {t \in coll : weekday \in Range(t.active_days)}

\* A guard that never finds a task.
existing_count_NoGuard(coll, target_date) == 0

\* count_documents({"scheduled_date": {"$eq": target_date.isoformat()}})
existing_count(coll, target_date) == Cardinality(ScheduledOn(coll, target_date))

AlreadyExist == "Tasks already exist"
Generated == "Generated tasks"

\* A generation for date d answers 200: what it leaves in the collection for d.
Ran(d, coll) ==
    ran' = [ran EXCEPT ![d] = IF \E t \in coll : t.scheduled_date = <<d>>
                               THEN LeftSome ELSE LeftNone]

\* POST /api/tasks/generate-daily/{date_str}: strptime and the guard's count
generate_daily_tasks(p, date_str) ==
    LET r == [op |-> "generate_daily_tasks", date_str |-> date_str]
    IN  /\ pc[p] = "idle"
        /\ UNCHANGED <<stores, issued>>
        /\ \/ /\ ~ValidDate(date_str)
              /\ Raise(p, r, 400, "Invalid date format. Use YYYY-MM-DD")
              /\ UNCHANGED ran
           \/ /\ ValidDate(date_str)
              /\ existing_count(tasks, date_str) > 0
              /\ Finish(p, r, 200, [message |-> AlreadyExist, created |-> 0])
              /\ Ran(date_str, tasks)
           \/ /\ ValidDate(date_str)
              /\ ~(existing_count(tasks, date_str) > 0)
              /\ Goto(p, "generate_find",
                      [op |-> r.op, date_str |-> date_str,
                       weekday |-> WeekdayOf(date_str)])
              /\ UNCHANGED ran
           \/ /\ ValidDate(date_str)
              /\ Raise(p, r, 500, "Failed to generate daily tasks")
              /\ UNCHANGED ran

\* A result after the loop that carries the guard's message.
generate_result_AlreadyExist(created_tasks) ==
    [message |-> AlreadyExist, created |-> Len(created_tasks), tasks |-> created_tasks]

\* What generate_daily_tasks returns after its loop
generate_result(created_tasks) ==
    [message |-> Generated, created |-> Len(created_tasks), tasks |-> created_tasks]

\* generate_daily_tasks: the templates of the weekday
generate_find(p) ==
    LET r == [op |-> loc[p].op, date_str |-> loc[p].date_str]
        found == InOrder(ActiveOn(templates, loc[p].weekday))
    IN  /\ pc[p] = "generate_find"
        /\ UNCHANGED <<stores, issued>>
        /\ \/ /\ found = <<>>
              /\ Finish(p, r, 200, generate_result(<<>>))
              /\ Ran(r.date_str, tasks)
           \/ /\ found # <<>>
              /\ Goto(p, "generate_insert",
                      [op |-> r.op, date_str |-> r.date_str,
                       templates |-> found, created_tasks |-> <<>>])
              /\ UNCHANGED ran
           \/ /\ Raise(p, r, 500, "Failed to generate daily tasks")
              /\ UNCHANGED ran

\* A task document that leaves the template's goal out.
generated_task_doc_NoGoal(tid, template, target_date) ==
    [id |-> tid,
     name |-> template.name,
     color |-> template.color,
     metric |-> template.metric,
     goal |-> None,
     template_id |-> Some(template.id),
     scheduled_date |-> Some(target_date)]

\* generate_daily_tasks: the task document built from a template
generated_task_doc(tid, template, target_date) ==
    [id |-> tid,
     name |-> template.name,
     color |-> template.color,
     metric |-> template.metric,
     goal |-> template.goal,
     template_id |-> Some(template.id),
     scheduled_date |-> Some(target_date)]

\* generate_daily_tasks: one round of the loop, an insert_one
generate_insert(p) ==
    LET l == loc[p]
        r == [op |-> l.op, date_str |-> l.date_str]
        template == l.templates[Len(l.created_tasks) + 1]
        doc == generated_task_doc(issued.tasks + 1, template, l.date_str)
        created == Append(l.created_tasks, doc)
    IN  /\ pc[p] = "generate_insert"
        /\ UNCHANGED <<templates, events>>
        /\ \/ /\ tasks' = tasks \cup {doc}
              /\ issued' = [issued EXCEPT !.tasks = @ + 1]
              /\ IF Len(created) = Len(l.templates)
                   THEN Finish(p, r, 200, generate_result(created))
                        /\ Ran(l.date_str, tasks')
                   ELSE Goto(p, "generate_insert", [l EXCEPT !.created_tasks = created])
                        /\ UNCHANGED ran
           \/ /\ UNCHANGED <<tasks, issued, ran>>
              /\ Raise(p, r, 500, "Failed to generate daily tasks")

\* ------------------------------------------------------------ daily_report
\* A rate cut to the tenth below instead of rounded.
RoundTenths_Floor(completed, total) == (completed * 1000) \div total

\* round(x, 1) of x = completed / total * 100, in tenths: the nearest tenth,
\* a tie going to the even one.
RoundTenths(completed, total) ==
    LET q == (completed * 1000) \div total
        rest == (completed * 1000) % total
    IN  IF 2 * rest > total THEN q + 1
        ELSE IF 2 * rest < total THEN q
        ELSE IF q % 2 = 0 THEN q ELSE q + 1

\* GET /api/reports/daily/{date_str}: strptime and the find of the date's tasks
daily_report(p, date_str) ==
    LET r == [op |-> "daily_report", date_str |-> date_str]
        found == InOrder(ScheduledOn(tasks, date_str))
    IN  /\ pc[p] = "idle"
        /\ UNCHANGED <<stores, issued, ran>>
        /\ \/ /\ ~ValidDate(date_str)
              /\ Raise(p, r, 400, "Invalid date format. Use YYYY-MM-DD")
           \/ /\ ValidDate(date_str)
              /\ found = <<>>
              /\ Finish(p, r, 200,
                        [total_tasks |-> 0, completed_tasks |-> 0,
                         completion_rate |-> 0, metrics |-> [m \in {} |-> 0]])
           \/ /\ ValidDate(date_str)
              /\ found # <<>>
              /\ Goto(p, "daily_report_loop",
                      [op |-> r.op, date_str |-> date_str,
                       tasks |-> found, i |-> 1, completed_tasks |-> 0,
                       metrics |-> [m \in {COUNT, TIMER, CHECK} |-> 0]])
           \/ /\ ValidDate(date_str)
              /\ Raise(p, r, 500, "Failed to generate daily report")

\* What daily_report returns after its loop; completion_rate in tenths
report_result(total_tasks, completed_tasks, metrics) ==
    [total_tasks |-> total_tasks,
     completed_tasks |-> completed_tasks,
     completion_rate |->
         IF total_tasks > 0 THEN RoundTenths(completed_tasks, total_tasks) ELSE 0,
     metrics |-> metrics]

\* A count_documents that finds no event of any task.
has_activity_Never(coll, task_id) == FALSE

\* count_documents({"task_id": {"$eq": task_id}}) > 0
has_activity(coll, task_id) ==
    BagCardinality([e \in {d \in DOMAIN coll : d.task_id = task_id} |-> coll[e]]) > 0

\* daily_report: one round of the loop, a count_documents
daily_report_loop(p) ==
    LET l == loc[p]
        r == [op |-> l.op, date_str |-> l.date_str]
        task == l.tasks[l.i]
        active == has_activity(events, task.id)
        completed == IF active THEN l.completed_tasks + 1 ELSE l.completed_tasks
        metrics == IF active THEN [l.metrics EXCEPT ![task.metric] = @ + 1]
                   ELSE l.metrics
    IN  /\ pc[p] = "daily_report_loop"
        /\ UNCHANGED <<stores, issued, ran>>
        /\ \/ IF l.i = Len(l.tasks)
                THEN Finish(p, r, 200, report_result(Len(l.tasks), completed, metrics))
                ELSE Goto(p, "daily_report_loop",
                          [l EXCEPT !.i = @ + 1, !.completed_tasks = completed,
                                    !.metrics = metrics])
           \/ Raise(p, r, 500, "Failed to generate daily report")

\* --------------------------------------------------------- specifications
\* The steps that insert a document, for the caps of a specification.
insert_template(p) ==
    \E payload \in TemplatePayloads : create_template(p, payload)

insert_task(p) ==
    \/ \E payload \in TaskPayloads : create_task(p, payload)
    \/ generate_insert(p)

\* Every endpoint, every request body, any slot.
Next ==
    \E p \in Procs :
        \/ issued.templates < MaxTemplates /\ insert_template(p)
        \/ \E id \in TemplateIds : delete_template(p, id)
        \/ delete_template_delete(p)
        \/ issued.tasks < MaxTasks /\ insert_task(p)
        \/ \E id \in TaskIds : delete_task(p, id)
        \/ delete_task_delete(p)
        \/ delete_task_events(p)
        \/ \E id \in TaskIds, payload \in EventPayloads : create_event(p, id, payload)
        \/ BagCardinality(events) < MaxEvents /\ create_event_insert(p)
        \/ \E id \in TaskIds : task_summary(p, id)
        \/ task_summary_fold(p)
        \/ \E d \in DateStrs : generate_daily_tasks(p, d)
        \/ generate_find(p)
        \/ \E d \in DateStrs : daily_report(p, d)
        \/ daily_report_loop(p)

Spec == Init /\ [][Next]_vars

\* The scheduler, one request at a time: templates and tasks are created and
\* dates are generated.
NextGenerate ==
    \E p \in {1} :
        \/ issued.templates < GenTemplates /\ insert_template(p)
        \/ issued.tasks < GenTasks /\ insert_task(p)
        \/ \E d \in DateStrs : generate_daily_tasks(p, d)
        \/ generate_find(p)

SpecGenerate == Init /\ [][NextGenerate]_vars

\* The scheduler under concurrent requests: templates are created and dates
\* are generated by requests that interleave.
NextGenerateRace ==
    \E p \in Procs :
        \/ issued.templates < GenTemplates /\ insert_template(p)
        \/ \E d \in DateStrs : generate_daily_tasks(p, d)
        \/ generate_find(p)
        \/ issued.tasks < GenTasks /\ generate_insert(p)

SpecGenerateRace == Init /\ [][NextGenerateRace]_vars

\* The aggregator, one request at a time, over tasks created from the bodies
\* TP and events logged from the bodies EP.
NextLog(TP, EP) ==
    \E p \in {1} :
        \/ issued.tasks < LogTasks /\ \E payload \in TP : create_task(p, payload)
        \/ \E id \in 0..LogTasks, payload \in EP : create_event(p, id, payload)
        \/ BagCardinality(events) < LogEvents /\ create_event_insert(p)
        \/ \E id \in 0..LogTasks : task_summary(p, id)
        \/ task_summary_fold(p)
        \/ \E id \in 0..LogTasks : delete_task(p, id)
        \/ delete_task_delete(p)
        \/ delete_task_events(p)

OfMetric(metrics) == {tp \in TaskPayloads : tp.metric \in metrics \cup {"steps"}}
OfType(types) == {ep \in EventPayloads : ep.type \in types}

SpecCount ==
    Init /\ [][NextLog(OfMetric({COUNT}), OfType({"increment", "timer_stop"}))]_vars

SpecTimer ==
    Init /\ [][NextLog(OfMetric({TIMER}),
                       OfType({"timer_stop", "timer_start", "increment"}))]_vars

SpecCheck ==
    Init /\ [][NextLog(OfMetric({CHECK}), OfType({"check", "increment"}))]_vars

\* The aggregator, one request at a time, over tasks of every metric and every
\* event body.
NextMixed ==
    \E p \in {1} :
        \/ issued.tasks < MixTasks
             /\ \E payload \in TaskPayloads : create_task(p, payload)
        \/ \E id \in 0..MixTasks, payload \in EventPayloads : create_event(p, id, payload)
        \/ BagCardinality(events) < MixEvents /\ create_event_insert(p)
        \/ \E id \in 0..MixTasks : task_summary(p, id)
        \/ task_summary_fold(p)
        \/ \E id \in 0..MixTasks : delete_task(p, id)
        \/ delete_task_delete(p)
        \/ delete_task_events(p)

SpecMixed == Init /\ [][NextMixed]_vars

\* delete_task against concurrent requests on the same tasks.
NextCascade ==
    \E p \in Procs :
        \/ issued.tasks < CascadeTasks
             /\ \E payload \in OfMetric({COUNT}) : create_task(p, payload)
        \/ \E id \in 0..CascadeTasks : delete_task(p, id)
        \/ delete_task_delete(p)
        \/ delete_task_events(p)
        \/ \E id \in 0..CascadeTasks, payload \in OfType({"timer_start"}) :
               create_event(p, id, payload)
        \/ BagCardinality(events) < CascadeEvents /\ create_event_insert(p)
        \/ \E id \in 0..CascadeTasks : task_summary(p, id)
        \/ task_summary_fold(p)

SpecCascade == Init /\ [][NextCascade]_vars

\* The bodies of create_task and a count task dated on the Monday.
ReportTaskPayloads ==
    TaskPayloads \cup
        {[name |-> <<"S", "i", "t">>, color |-> Indigo, metric |-> COUNT,
          goal |-> Some(3), template_id |-> None, scheduled_date |-> Some(Mon0603)]}

\* The report, one request at a time, over dated and undated tasks.
NextReport ==
    \E p \in {1} :
        \/ issued.tasks < ReportTasks
             /\ \E payload \in ReportTaskPayloads : create_task(p, payload)
        \/ \E id \in 0..ReportTasks, payload \in OfType({"timer_start"}) :
               create_event(p, id, payload)
        \/ BagCardinality(events) < ReportEvents /\ create_event_insert(p)
        \/ \E d \in DateStrs : daily_report(p, d)
        \/ daily_report_loop(p)

SpecReport == Init /\ [][NextReport]_vars

\* Templates are created, generated from and deleted, and events are logged on
\* the generated tasks, one request at a time.
NextTemplates ==
    \E p \in {1} :
        \/ issued.templates < TplTemplates /\ insert_template(p)
        \/ \E id \in 0..TplTemplates : delete_template(p, id)
        \/ delete_template_delete(p)
        \/ generate_daily_tasks(p, Mon0603)
        \/ generate_find(p)
        \/ issued.tasks < TplTasks /\ generate_insert(p)
        \/ \E id \in 1..TplTasks : create_event(p, id, [type |-> "increment", value |-> None])
        \/ BagCardinality(events) < TplEvents /\ create_event_insert(p)
        \/ \E id \in 1..TplTasks : task_summary(p, id)
        \/ task_summary_fold(p)
        \/ daily_report(p, Mon0603)
        \/ daily_report_loop(p)

SpecTemplates == Init /\ [][NextTemplates]_vars

\* The whole API, one request at a time: every endpoint, each with a body or
\* a date it takes and one it rejects.
ApiTemplatePayloads == {tp \in TemplatePayloads : tp.metric = COUNT \/ ~active_days_ok(tp.active_days)}
ApiTaskPayloads == {tp \in TaskPayloads : tp.metric \in {CHECK, "steps"}}
ApiEventPayloads == {ep \in EventPayloads : ep.type = "timer_stop"}
ApiDateStrs == {Mon0603, Bad0631}

NextApi ==
    \E p \in {1} :
        \/ issued.templates < ApiTemplates
             /\ \E payload \in ApiTemplatePayloads : create_template(p, payload)
        \/ \E id \in 0..ApiTemplates : delete_template(p, id)
        \/ delete_template_delete(p)
        \/ issued.tasks < ApiTasks
             /\ \E payload \in ApiTaskPayloads : create_task(p, payload)
        \/ issued.tasks < ApiTasks /\ generate_insert(p)
        \/ \E id \in 0..ApiTasks : delete_task(p, id)
        \/ delete_task_delete(p)
        \/ delete_task_events(p)
        \/ \E id \in 0..ApiTasks, payload \in ApiEventPayloads :
               create_event(p, id, payload)
        \/ BagCardinality(events) < ApiEvents /\ create_event_insert(p)
        \/ \E id \in 0..ApiTasks : task_summary(p, id)
        \/ task_summary_fold(p)
        \/ \E d \in ApiDateStrs : generate_daily_tasks(p, d)
        \/ generate_find(p)
        \/ \E d \in ApiDateStrs : daily_report(p, d)
        \/ daily_report_loop(p)

SpecApi == Init /\ [][NextApi]_vars

\* ------------------------------------------------------------------ claims
\* What the properties below read off a state, written without the handlers'
\* own definitions.
Idle == \A p \in Procs : pc[p] = "idle"

\* The response just sent answers a request of the given endpoint with 200.
Answered(op) == sent.op = op /\ sent.status = 200

\* The calendar's weekday of the two dates, Monday = 0.
CalendarWeekday(d) == IF d = Mon0603 THEN 0 ELSE IF d = Wed0605 THEN 2 ELSE 7

TasksOn(d) == {t \in tasks : t.scheduled_date = <<d>>}

TemplatesOn(d) ==
    {tpl \in templates :
        \E i \in 1..Len(tpl.active_days) : tpl.active_days[i] = CalendarWeekday(d)}

\* The sum of a function's values.
RECURSIVE SumFn(_)
SumFn(f) ==
    IF DOMAIN f = {} THEN 0
    ELSE LET x == CHOOSE y \in DOMAIN f : TRUE
         IN  f[x] + SumFn([y \in DOMAIN f \ {x} |-> f[y]])

\* The stored events of a task that have the given type.
EventsOf(task_id, type) ==
    {e \in DOMAIN events : e.task_id = task_id /\ e.type = type}

\* C1: after concurrent generations for one date have ended, the tasks hold at
\* most one task per (template_id, scheduled_date).
C1_OneTaskPerTemplateAndDate ==
    Idle =>
        \A t1 \in tasks, t2 \in tasks :
            (/\ t1.template_id # <<>>
             /\ t1.template_id = t2.template_id
             /\ t1.scheduled_date = t2.scheduled_date) => t1.id = t2.id

\* C2: a generation for a date that an earlier generation has already answered
\* creates nothing, whatever templates were inserted in between.
C2_SecondCallCreatesNothing ==
    [][(/\ Answered("generate_daily_tasks")'
        /\ ran[sent'.req.date_str] # NeverRan) => sent'.body.created = 0]_vars

\* C2, amended: a generation for a date creates nothing when the earlier
\* generation left at least one task on that date, whatever templates were
\* inserted in between.
C2_SecondCallAfterTasksCreatesNothing ==
    [][(/\ Answered("generate_daily_tasks")'
        /\ ran[sent'.req.date_str] = LeftSome) => sent'.body.created = 0]_vars

\* A repeated generation answers "already exist" although a template of the
\* weekday has no task on the date: it was inserted after the first run.
C2_Witness ==
    /\ Answered("generate_daily_tasks")
    /\ sent.body.message = AlreadyExist
    /\ ran[sent.req.date_str] = LeftSome
    /\ \E tpl \in TemplatesOn(sent.req.date_str) :
          \A t \in TasksOn(sent.req.date_str) : t.template_id # <<tpl.id>>
    /\ \E t \in TasksOn(sent.req.date_str) : t.template_id # <<>>

\* C8: every generated task comes from a template whose active_days contains
\* the weekday of the task's date.
C8_OnlyTemplatesOfTheWeekday ==
    \A t \in tasks :
        t.template_id # <<>> =>
            \E tpl \in TemplatesOn(t.scheduled_date[1]) : t.template_id = <<tpl.id>>

\* A Wednesday was generated while a Saturday/Sunday template existed.
C8_Witness ==
    /\ Answered("generate_daily_tasks")
    /\ sent.req.date_str = Wed0605
    /\ sent.body.created >= 1
    /\ \E tpl \in templates : tpl.active_days = <<5, 6>>

\* C9: a generation that passes its guard answers with one task per template
\* of the weekday, each a copy of its template's name, color, metric and goal
\* carrying the template's id and the date, each stored, and with created the
\* number of these tasks.
C9_OneCopyPerTemplate ==
    (Answered("generate_daily_tasks") /\ sent.body.message = Generated) =>
        LET d == sent.req.date_str
            made == sent.body.tasks
        IN  /\ sent.body.created = Len(made)
            /\ Len(made) = Cardinality(TemplatesOn(d))
            /\ Cardinality(tasks) >= Len(made)
            /\ \A i \in 1..Len(made) : made[i] \in tasks
            /\ \A i \in 1..Len(made), j \in 1..Len(made) :
                  made[i].id = made[j].id => i = j
            /\ \A tpl \in TemplatesOn(d) :
                  /\ Cardinality({t \in TasksOn(d) : t.template_id = <<tpl.id>>}) = 1
                  /\ \E i \in 1..Len(made) :
                        /\ made[i].template_id = <<tpl.id>>
                        /\ made[i].scheduled_date = <<d>>
                        /\ made[i].name = tpl.name
                        /\ made[i].color = tpl.color
                        /\ made[i].metric = tpl.metric
                        /\ made[i].goal = tpl.goal

\* A generation answered with two tasks, one with a goal and one without.
C9_Witness ==
    /\ Answered("generate_daily_tasks")
    /\ sent.body.created = 2
    /\ \E i \in 1..2 : sent.body.tasks[i].goal = <<50>>
    /\ \E i \in 1..2 : sent.body.tasks[i].goal = <<>>

\* C3: with no request in flight, every event's task_id names a stored task.
C3_NoOrphanedEvents ==
    Idle => \A e \in DOMAIN events : \E t \in tasks : t.id = e.task_id

\* The value an increment event adds: its value, 1 when it has none.
IncrementOf(value) == IF value = <<>> THEN 1 ELSE value[1]

ExpectedTotal(task_id) ==
    SumFn([e \in EventsOf(task_id, "increment") |-> events[e] * IncrementOf(e.value)])

ExpectedTotalSec(task_id) ==
    SumFn([e \in EventsOf(task_id, "timer_stop") |-> events[e] * e.value[1]])

\* The task a just answered task_summary or create_event was about.
About(t) == t \in tasks /\ t.id = sent.req.task_id

\* C4: the summary of a count task is the sum of its increment events' values,
\* one without a value counting 1, with the task's goal; and logging an
\* increment event of value v raises the total by v, by 1 without a value.
C4_CountTotal ==
    [][/\ Answered("task_summary")' =>
            \A t \in tasks' :
                (About(t)' /\ t.metric = COUNT) =>
                    /\ sent'.body.total = ExpectedTotal(t.id)'
                    /\ sent'.body.goal = t.goal
       /\ (Answered("create_event")' /\ sent'.req.payload.type = "increment") =>
            count_total(events', sent'.req.task_id) =
                count_total(events, sent'.req.task_id)
                    + IncrementOf(sent'.req.payload.value)]_vars

\* A count task with goal 8 is summarized after an increment without a value
\* and one of 10.
C4_Witness ==
    /\ Answered("task_summary")
    /\ sent.body.total = 11
    /\ sent.body.goal = <<8>>

\* C5: the summary of a timer task is the sum of its timer_stop events' values,
\* and logging a timer_start event leaves it as it was.
C5_TimerTotal ==
    [][/\ Answered("task_summary")' =>
            \A t \in tasks' :
                (About(t)' /\ t.metric = TIMER) =>
                    /\ sent'.body.total_sec = ExpectedTotalSec(t.id)'
                    /\ sent'.body.goal = t.goal
       /\ (Answered("create_event")' /\ sent'.req.payload.type = "timer_start") =>
            timer_total_sec(events', sent'.req.task_id) =
                timer_total_sec(events, sent'.req.task_id)]_vars

\* A timer task is summarized at 60 seconds with an unpaired timer_start logged.
C5_Witness ==
    /\ Answered("task_summary")
    /\ sent.body.total_sec = 60
    /\ EventsOf(sent.req.task_id, "timer_start") # {}
    /\ BagCardinality(events) = 2

\* C6: the summary of a check task is done exactly when the task has a check
\* event; a check event makes it done, and it stays done whatever is logged
\* next, as long as the task is stored.
C6_CheckDone ==
    [][/\ Answered("task_summary")' =>
            \A t \in tasks' :
                (About(t)' /\ t.metric = CHECK) =>
                    sent'.body.done = (EventsOf(t.id, "check")' # {})
       /\ (Answered("create_event")' /\ sent'.req.payload.type = "check") =>
            summary_body(CHOOSE t \in tasks' : About(t)', events').done
       /\ \A t \in tasks \cap tasks' :
            (t.metric = CHECK /\ summary_body(t, events).done) =>
                summary_body(t, events').done]_vars

\* A check task is summarized as done after two check events.
C6_Witness ==
    /\ Answered("task_summary")
    /\ sent.body.done
    /\ \E e \in EventsOf(sent.req.task_id, "check") : events[e] = 2

\* C7: when delete_task answers 200 the task and every event of it are gone;
\* a task once removed is never stored again, and a task_summary that is
\* accepted while the task is gone answers 404 (or the 500 of a failed read).
C7_DeletedTaskIsGone ==
    [][/\ Answered("delete_task")' =>
            /\ \A e \in DOMAIN events' : e.task_id # sent'.req.task_id
            /\ \A t \in tasks' : t.id # sent'.req.task_id
       /\ \A id \in 1..issued.tasks :
            (\A t \in tasks : t.id # id) =>
                /\ \A t \in tasks' : t.id # id
                /\ \A p \in Procs :
                      (pc[p] = "idle" /\ pc'[p] = "task_summary_fold")
                          => loc'[p].task_id # id
                /\ (/\ sent'.op = "task_summary"
                    /\ sent'.req.task_id = id
                    /\ \A p \in Procs : pc[p] = "task_summary_fold" => pc'[p] = pc[p])
                      => sent'.status \in {404, 500}]_vars

\* delete_task has answered 200 for one task while another task keeps its
\* events.
C7_Witness ==
    /\ Answered("delete_task")
    /\ Idle
    /\ tasks # {}
    /\ BagCardinality(events) > 0
    /\ \A e \in DOMAIN events : \E t \in tasks : t.id = e.task_id

\* C10: the report of a date counts the date's tasks, counts as completed those
\* with at least one event, and gives as completion_rate completed / total * 100
\* to the nearest tenth (here in tenths), 0 for a date without tasks.
C10_ReportCounts ==
    Answered("daily_report") =>
        LET on == TasksOn(sent.req.date_str)
            completed == {t \in on : \E e \in DOMAIN events : e.task_id = t.id}
            rate == sent.body.completion_rate
        IN  /\ sent.body.total_tasks = Cardinality(on)
            /\ sent.body.completed_tasks = Cardinality(completed)
            /\ IF on = {} THEN rate = 0
               ELSE /\ 2 * (rate * Cardinality(on) - 1000 * Cardinality(completed))
                          <= Cardinality(on)
                    /\ 2 * (1000 * Cardinality(completed) - rate * Cardinality(on))
                          <= Cardinality(on)

\* Three tasks on the date, two of them with an event: 66.7.
C10_Witness ==
    /\ Answered("daily_report")
    /\ sent.body.total_tasks = 3
    /\ sent.body.completed_tasks = 2
    /\ sent.body.completion_rate = 667

\* The two dates of the calendar among the date strings of the requests.
OnCalendar(d) == d = Mon0603 \/ d = Wed0605

\* C11: a request answered with NotFound or InvalidInput (404, 400, 422) leaves
\* the three collections as they were; a create_event, delete_task or
\* task_summary on an id that names no stored task, a delete_template on an id
\* that names no stored template, and a generation or a report for a malformed
\* date are answered at once, not with 200, and insert and delete nothing.
C11_RejectedLeavesStores ==
    [][/\ sent'.status \in {400, 404, 422} => stores' = stores
       /\ \A p \in Procs :
            (pc[p] = "idle" /\ pc'[p] # "idle") =>
                /\ loc'[p].op \in {"create_event", "delete_task", "task_summary"}
                      => \E t \in tasks : t.id = loc'[p].task_id
                /\ loc'[p].op = "delete_template"
                      => \E tpl \in templates : tpl.id = loc'[p].template_id
                /\ loc'[p].op \in {"generate_daily_tasks", "daily_report"}
                      => OnCalendar(loc'[p].date_str)
       /\ (/\ sent'.op \in {"create_event", "delete_task"}
           /\ Idle
           /\ \A t \in tasks : t.id # sent'.req.task_id)
              => sent'.status \in {400, 404, 422, 500} /\ stores' = stores
       /\ (/\ sent'.op = "delete_template"
           /\ Idle
           /\ \A tpl \in templates : tpl.id # sent'.req.template_id)
              => sent'.status \in {400, 404, 500} /\ stores' = stores
       /\ (/\ sent'.op \in {"generate_daily_tasks", "daily_report"}
           /\ ~OnCalendar(sent'.req.date_str))
              => sent'.status = 400 /\ stores' = stores]_vars

\* A generation for June 31st is answered 400 while a template, a task and an
\* event are stored.
C11_Witness ==
    /\ sent.op = "generate_daily_tasks"
    /\ sent.status = 400
    /\ sent.req.date_str = Bad0631
    /\ templates # {}
    /\ tasks # {}
    /\ BagCardinality(events) > 0

\* What an event, stored or in a request's body, has to satisfy.
WellFormedEvent(e) ==
    /\ e.type \in {"increment", "timer_start", "timer_stop", "check"}
    /\ (e.type = "timer_stop") => e.value # <<>>
    /\ (e.type \in {"timer_start", "check"}) => e.value = <<>>
    /\ IF e.value = <<>> THEN TRUE ELSE 0 <= e.value[1] /\ e.value[1] <= 86400

\* C12: every stored event has one of the four types, a value if it is a
\* timer_stop, none if it is a timer_start or a check, and a value, if any,
\* between 0 and 86400; a create_event whose body violates this is answered
\* 422 by its first step and stores nothing.
C12_StoredEventsAreValid ==
    [][/\ \A e \in DOMAIN events' : WellFormedEvent(e)
       /\ (sent'.op = "create_event" /\ ~WellFormedEvent(sent'.req.payload))
              => sent'.status = 422 /\ Idle /\ stores' = stores
       /\ \A p \in Procs :
            (pc'[p] = "create_event_insert") => WellFormedEvent(loc'[p].payload)]_vars

\* A timer_stop without a value is answered 422 while a timer_stop of 60 is stored.
C12_Witness ==
    /\ sent.op = "create_event"
    /\ sent.status = 422
    /\ sent.req.payload = [type |-> "timer_stop", value |-> <<>>]
    /\ \E e \in DOMAIN events : e.type = "timer_stop" /\ e.value = <<60>>

\* C13: while a task, generated or created through create_task, has the date
\* d, a generation for d is answered by its first step with created = 0 and
\* the tasks-already-exist message (or with the 500 of a failed count) and
\* leaves the tasks as they were, whatever templates are stored.
C13_GuardCountsEveryTask ==
    [][\A d \in {Mon0603, Wed0605} :
          TasksOn(d) # {} =>
              /\ \A p \in Procs :
                    (/\ pc[p] = "idle"
                     /\ pc'[p] # "idle"
                     /\ loc'[p].op = "generate_daily_tasks") => loc'[p].date_str # d
              /\ (/\ sent'.op = "generate_daily_tasks"
                  /\ sent'.req.date_str = d
                  /\ Idle)
                    => /\ tasks' = tasks
                       /\ sent'.status \in {200, 500}
                       /\ sent'.status = 200 =>
                             /\ sent'.body.created = 0
                             /\ sent'.body.message = AlreadyExist]_vars

\* A generation is answered "already exist" on a date whose only tasks were
\* created through create_task, while a template of the weekday is stored.
C13_Witness ==
    /\ Answered("generate_daily_tasks")
    /\ sent.body.message = AlreadyExist
    /\ sent.body.created = 0
    /\ TasksOn(sent.req.date_str) # {}
    /\ \A t \in TasksOn(sent.req.date_str) : t.template_id = <<>>
    /\ TemplatesOn(sent.req.date_str) # {}

\* C14: when a generation that passed its guard ends, with 200 or with the 500
\* of a failed insert, either every template of the date's weekday has a task
\* on the date or the date has no task at all.
C14_NeverPartiallyCommits ==
    [][\A p \in Procs, d \in {Mon0603, Wed0605} :
          (/\ pc[p] \in {"generate_find", "generate_insert"}
           /\ loc[p].date_str = d
           /\ pc'[p] = "idle") =>
              \/ \A tpl \in TemplatesOn(d)' :
                    \E t \in TasksOn(d)' : t.template_id = <<tpl.id>>
              \/ TasksOn(d)' = {}]_vars

\* The tasks of a date that have at least one event and the given metric.
CompletedOn(d, m) ==
    {t \in TasksOn(d) : t.metric = m /\ \E e \in DOMAIN events : e.task_id = t.id}

\* C15: in the report of a date with at least one task, metrics[m] is, for
\* each of count, timer and check, the number of the date's tasks of metric m
\* that have at least one event; the three add up to completed_tasks, which
\* lies between 0 and total_tasks.
C15_ReportMetrics ==
    (Answered("daily_report") /\ TasksOn(sent.req.date_str) # {}) =>
        LET d == sent.req.date_str
            metrics == sent.body.metrics
        IN  /\ DOMAIN metrics = {"count", "timer", "check"}
            /\ \A m \in {"count", "timer", "check"} :
                  metrics[m] = Cardinality(CompletedOn(d, m))
            /\ metrics["count"] + metrics["timer"] + metrics["check"]
                  = sent.body.completed_tasks
            /\ 0 <= sent.body.completed_tasks
            /\ sent.body.completed_tasks <= sent.body.total_tasks

\* A report of three tasks: a count task and a check task with an event each,
\* and a timer task without any.
C15_Witness ==
    /\ Answered("daily_report")
    /\ sent.body.total_tasks = 3
    /\ sent.body.metrics = [count |-> 1, timer |-> 0, check |-> 1]
    /\ \E t \in TasksOn(sent.req.date_str) : t.metric = "timer"

\* C16: while no task has the date d and no template's active_days contains
\* the weekday of d, a generation for d that is answered is answered 200 (or
\* with the 500 of a failed read), with created = 0, an empty task list and a
\* message other than the tasks-already-exist one, and leaves the tasks as
\* they were.
C16_NothingToGenerate ==
    [][\A d \in {Mon0603, Wed0605} :
          (/\ sent'.op = "generate_daily_tasks"
           /\ sent'.req.date_str = d
           /\ TasksOn(d) = {}
           /\ TemplatesOn(d) = {})
              => /\ tasks' = tasks
                 /\ sent'.status \in {200, 500}
                 /\ sent'.status = 200 =>
                       /\ sent'.body.created = 0
                       /\ sent'.body.tasks = <<>>
                       /\ sent'.body.message # "Tasks already exist"]_vars

\* A Monday is generated with created = 0 while the only template is the
\* weekend's and a task of another kind is stored.
C16_Witness ==
    /\ Answered("generate_daily_tasks")
    /\ sent.req.date_str = Mon0603
    /\ sent.body.created = 0
    /\ sent.body.message # "Tasks already exist"
    /\ templates # {}
    /\ tasks # {}
    /\ TasksOn(Mon0603) = {}

\* What the stored events make of a task's summary.
ExpectedSummary(t) ==
    IF t.metric = "count" THEN [total |-> ExpectedTotal(t.id), goal |-> t.goal]
    ELSE IF t.metric = "timer" THEN [total_sec |-> ExpectedTotalSec(t.id), goal |-> t.goal]
    ELSE [done |-> EventsOf(t.id, "check") # {}]

\* The report just sent agrees with the stored tasks and events of the date d.
ReportAgrees(d) ==
    LET body == sent.body
        n == Cardinality(TasksOn(d))
        c == Cardinality({t \in TasksOn(d) : \E e \in DOMAIN events : e.task_id = t.id})
    IN  /\ body.total_tasks = n
        /\ body.completed_tasks = c
        /\ 2 * (body.completion_rate * n - 1000 * c) <= n
        /\ 2 * (1000 * c - body.completion_rate * n) <= n
        /\ IF n = 0 THEN DOMAIN body.metrics = {}
           ELSE \A m \in {"count", "timer", "check"} :
                    body.metrics[m] = Cardinality(CompletedOn(d, m))

\* C17: the steps of a delete_template request leave the tasks and the events
\* as they were, and the step that answers 200 removes the template of the
\* request and no other; the tasks made from it stay, template_id included,
\* and a summary or a report answered afterwards is what the stored tasks and
\* events make it, as before the deletion.
C17_DeleteTemplateOnly ==
    [][/\ (sent'.op = "delete_template"
             \/ \E p \in Procs : pc[p] = "delete_template_delete" /\ pc'[p] # pc[p])
            => /\ tasks' = tasks
               /\ events' = events
               /\ \A t \in tasks : summary_body(t, events') = summary_body(t, events)
       /\ Answered("delete_template")' =>
            /\ \A tpl \in templates' : tpl.id # sent'.req.template_id
            /\ \A tpl \in templates :
                  tpl.id # sent'.req.template_id => tpl \in templates'
            /\ \A tpl \in templates' : tpl \in templates
            /\ \A t \in tasks :
                  t.template_id = <<sent'.req.template_id>> => t \in tasks'
       /\ ~Answered("delete_template")' /\ sent'.op = "delete_template"
            => templates' = templates
       /\ Answered("task_summary")' =>
            \A t \in tasks' :
                t.id = sent'.req.task_id => sent'.body = ExpectedSummary(t)'
       /\ \A d \in {Mon0603, Wed0605} :
            (Answered("daily_report")' /\ sent'.req.date_str = d)
                => ReportAgrees(d)']_vars

\* A task whose template is deleted is summarized with its event counted,
\* while another template is stored.
C17_Witness ==
    /\ Answered("task_summary")
    /\ sent.body = [total |-> 1, goal |-> <<50>>]
    /\ templates # {}
    /\ \E t \in tasks :
          /\ t.id = sent.req.task_id
          /\ t.template_id # <<>>
          /\ \A tpl \in templates : t.template_id # <<tpl.id>>

\* A request or a response of task_summary or of daily_report.
Reading(l) == l.op \in {"task_summary", "daily_report"}

\* C18: every step of a task_summary or of a daily_report leaves the three
\* collections as they were, and what it answers, the 500 of a failed read
\* aside, is determined by the argument and the collections: 400 for an id or
\* a date that is malformed, 404 for an id that names no task, and otherwise
\* the summary or the report the stored tasks and events make.
C18_PureReads ==
    [][/\ (\/ Reading(sent')
           \/ \E p \in Procs :
                 loc'[p] # loc[p] /\ (Reading(loc[p]) \/ Reading(loc'[p])))
            => stores' = stores
       /\ sent'.op = "task_summary" =>
            /\ sent'.status \in {200, 400, 404, 500}
            /\ sent'.status = 400 => sent'.req.task_id = 0
            /\ sent'.status = 404 =>
                  sent'.req.task_id # 0 /\ \A t \in tasks' : t.id # sent'.req.task_id
            /\ sent'.status = 200 =>
                  \E t \in tasks' :
                      t.id = sent'.req.task_id /\ sent'.body = ExpectedSummary(t)'
       /\ sent'.op = "daily_report" =>
            /\ sent'.status \in {200, 400, 500}
            /\ sent'.status = 400 => ~OnCalendar(sent'.req.date_str)
            /\ sent'.status = 200 =>
                  \E d \in {Mon0603, Wed0605} :
                      sent'.req.date_str = d /\ ReportAgrees(d)']_vars

\* A report of one completed task out of two is answered while a template is
\* stored.
C18_Witness ==
    /\ Answered("daily_report")
    /\ sent.body.total_tasks = 2
    /\ sent.body.completed_tasks = 1
    /\ templates # {}

\* The event type the summary of a task of metric m folds.
Folded(m) ==
    IF m = "count" THEN "increment" ELSE IF m = "timer" THEN "timer_stop" ELSE "check"

\* C19: a create_event with a well-formed body of a type other than the one
\* the task's metric folds is not turned away for its type (its first step
\* answers nothing, or the 500 of a failed read); when it answers 200 the
\* event is stored, one event more, and the summary of the task is what it
\* was.
C19_AnyTypeOnAnyTask ==
    [][\A t \in tasks :
          (/\ sent'.op = "create_event"
           /\ sent'.req.task_id = t.id
           /\ WellFormedEvent(sent'.req.payload)
           /\ sent'.req.payload.type # Folded(t.metric))
              => /\ Idle => sent'.status = 500
                 /\ sent'.status \in {200, 500}
                 /\ sent'.status = 200 =>
                       LET doc == [task_id |-> t.id,
                                   type |-> sent'.req.payload.type,
                                   value |-> sent'.req.payload.value]
                       IN  /\ BagIn(doc, events')
                           /\ CopiesIn(doc, events') = CopiesIn(doc, events) + 1
                           /\ BagCardinality(events') = BagCardinality(events) + 1
                           /\ ExpectedSummary(t)' = ExpectedSummary(t)
                           /\ summary_body(t, events') = summary_body(t, events)]_vars

\* A check event is logged on a count task whose total is 10.
C19_Witness ==
    /\ Answered("create_event")
    /\ sent.req.payload.type = "check"
    /\ \E t \in tasks :
          /\ t.id = sent.req.task_id
          /\ t.metric = "count"
          /\ ExpectedTotal(t.id) = 10
          /\ EventsOf(t.id, "check") # {}

\* The total of a count task, the total_sec of a timer task, as the stored
\* events make it.
TotalOf(t) == IF t.metric = "count" THEN ExpectedTotal(t.id) ELSE ExpectedTotalSec(t.id)

\* C20: as long as a count or timer task stays stored, no step removes or
\* changes an event of it, every value stored for it is at least 0, and its
\* total never decreases; every task_summary answers that total, so the
\* totals of successive summaries never decrease.
C20_TotalsNeverDecrease ==
    [][/\ \A t \in tasks \cap tasks' :
            (t.metric \in {"count", "timer"} /\ events' # events) =>
                /\ \A e \in DOMAIN events :
                      e.task_id = t.id =>
                          /\ BagIn(e, events')
                          /\ CopiesIn(e, events') >= CopiesIn(e, events)
                /\ \A e \in DOMAIN events' :
                      (e.task_id = t.id /\ e.value # <<>>) => e.value[1] >= 0
                /\ TotalOf(t)' >= TotalOf(t)
       /\ Answered("task_summary")' =>
            \A t \in tasks' :
                t.id = sent'.req.task_id =>
                    /\ t.metric = "count" => sent'.body.total = TotalOf(t)'
                    /\ t.metric = "timer" => sent'.body.total_sec = TotalOf(t)']_vars

\* A timer task is summarized at 120 seconds after two timer_stop events.
C20_Witness ==
    /\ Answered("task_summary")
    /\ \E t \in tasks :
          /\ t.id = sent.req.task_id
          /\ t.metric = "timer"
          /\ sent.body.total_sec = 120

====
